---- MODULE Spec2Model ----
(***************************************************************************)
(* OIC monitor MCP server: per-environment token cache (TokenManager),     *)
(* token acquisition (getAccessToken), the tools/call handler, and the two *)
(* upstream GET primitives fetchSingle and fetchWithPagination.           *)
(* Time is Date.now() in milliseconds.  A token is the pair of the         *)
(* credentials it was issued for and a serial number.                      *)
(***************************************************************************)
EXTENDS Integers, Sequences, FiniteSets, TLC

\* ------------------------------------------------------------------ bounds
NumCalls == 2
MaxTicks == 2
TickMs == 30000
MaxTokens == 3
CallsFullPages == 1
PageFullPages == 12
DeepFullPages == 102
MaxShortPages == 1
MaxSessions == 3

\* ------------------------------------------------------- program constants
bufferSeconds == 60
DefaultExpiresIn == 3600
DefaultLimit == 50
InstancesLimit == 50
MaxOffsetRaised == 500 + DefaultLimit
MAX_OFFSET == 500
MaxBatchNumber == 100
MaxInstanceIds == 50
ForceExitMs == 5000
OffsetCap == 10000

Environments == {"dev", "qa3", "prod1", "prod3"}
validEnvironments == {"dev", "qa3", "prod1", "prod3"}

Undefined == "undefined"
NoFile == [accessToken |-> [cred |-> "none", serial |-> 0], expiry |-> -1, environment |-> "none"]
NoToken == [cred |-> "none", serial |-> 0]

Calls == 1..NumCalls

\* ----------------------------------------------------------- configuration
\* The process environment of the deployment: OIC_*_PROD3 is not set.
ProcessEnv == [e \in Environments |-> IF e = "prod3" THEN "" ELSE e]

\* getConfigForEnvironment(env): the credentials and URLs of env; each field
\* is represented by the environment whose variables it was read from.
getConfigForEnvironment(env) ==
    [clientId |-> ProcessEnv[env], clientSecret |-> ProcessEnv[env],
     tokenUrl |-> ProcessEnv[env], apiBaseUrl |-> env, owner |-> env]

\* The default config: the *_DEV variables.
CONFIG ==
    [clientId |-> ProcessEnv["dev"], clientSecret |-> ProcessEnv["dev"],
     tokenUrl |-> ProcessEnv["dev"], apiBaseUrl |-> "dev", owner |-> "dev"]

\* ------------------------------------------------------------ TokenManager
\* new TokenManager(environment = 'dev'): the file path is represented by the
\* environment name it contains.
NewTokenManager(environment) ==
    LET env == IF environment = Undefined THEN "dev" ELSE environment
    IN  [environment |-> env, tokenFilePath |-> env]

\* The constructor of OicMonitorServer: one manager per environment.
tokenManagers == [env \in Environments |-> NewTokenManager(Undefined)]

\* tokenManagers.get(env) || tokenManagers.get('dev')
ManagerFor(env) ==
    IF env \in DOMAIN tokenManagers THEN tokenManagers[env] ELSE tokenManagers["dev"]

\* saveToken without the refresh buffer.
SavedExpiryNoBuffer(t, expiresInSeconds) ==
    t + (expiresInSeconds * 1000)

\* TokenManager.saveToken: the expiry written to the file.
SavedExpiry(t, expiresInSeconds) ==
    t + (expiresInSeconds * 1000) - (bufferSeconds * 1000)

\* TokenManager.getToken on the file contents f at time t: the value returned.
GetTokenOf(f, t) ==
    IF f # NoFile /\ t < f.expiry THEN f.accessToken ELSE NoToken

\* TokenManager.getToken: the files after the call (an expired record is
\* unlinked).
FilesAfterGetToken(fs, mgr, t) ==
    IF fs[mgr.tokenFilePath] # NoFile /\ ~(t < fs[mgr.tokenFilePath].expiry)
    THEN [fs EXCEPT ![mgr.tokenFilePath] = NoFile]
    ELSE fs

\* clearToken leaving the file in place.
FilesAfterClearTokenKeeps(fs, mgr) == fs

\* TokenManager.clearToken
FilesAfterClearToken(fs, mgr) == [fs EXCEPT ![mgr.tokenFilePath] = NoFile]

\* TokenManager.saveToken
FilesAfterSaveToken(fs, mgr, accessToken, expiresInSeconds, t) ==
    [fs EXCEPT ![mgr.tokenFilePath] =
        [accessToken |-> accessToken,
         expiry |-> SavedExpiry(t, expiresInSeconds),
         environment |-> mgr.environment]]

\* --------------------------------------------------------- filter rewriting
\* A filter string is a sequence of lexical pieces: "{", "}", ",", " ", "'",
\* "startdate:", a date, or "c" (any other clause text without , and }).
Dates == <<"2024-05-01", "2024-05-02">>
DateSet == {Dates[i] : i \in 1..Len(Dates)}
DateIdx(d) == CHOOSE i \in 1..Len(Dates) : Dates[i] = d

Stops == {",", "}"}

RECURSIVE RunStart(_, _)
\* Index of the first piece of the run of pieces matching [^,}] that holds j.
RunStart(s, j) ==
    IF j = 1 \/ s[j - 1] \in Stops THEN j ELSE RunStart(s, j - 1)

\* Piece j lies in a match of /startdate:[^,}]+/g: a "startdate:" followed
\* by at least one piece other than , and } starts at or before j in the
\* run of j.  (A match extends to the end of its run, so matches that start
\* inside an earlier match cover nothing more.)
InStartdateMatch(s, j) ==
    /\ s[j] \notin Stops
    /\ \E i \in RunStart(s, j)..j :
          s[i] = "startdate:" /\ i + 1 <= Len(s) /\ s[i + 1] \notin Stops

RECURSIVE Unmatched(_, _, _)
\* The pieces lo..hi of s that lie in no match, in order.
Unmatched(s, lo, hi) ==
    IF lo > hi THEN << >>
    ELSE IF lo = hi THEN (IF InStartdateMatch(s, lo) THEN << >> ELSE <<s[lo]>>)
    ELSE LET mid == (lo + hi) \div 2
         IN  Unmatched(s, lo, mid) \o Unmatched(s, mid + 1, hi)

\* s.replace(/startdate:[^,}]+/g, '')
RemoveStartdate(s) == Unmatched(s, 1, Len(s))

\* s.replace(/\}$/, `, startdate:'${d}'}`)
AppendStartdate(s, d) ==
    IF Len(s) > 0 /\ s[Len(s)] = "}"
    THEN SubSeq(s, 1, Len(s) - 1) \o <<",", " ", "startdate:", "'", d, "'", "}">>
    ELSE s

\* The filter of the next batch, from baseQuery and lastRecordDate.
RewriteQuery(baseQuery, lastRecordDate) ==
    IF baseQuery # << >>
    THEN AppendStartdate(RemoveStartdate(baseQuery), lastRecordDate)
    ELSE <<"{", "startdate:", "'", lastRecordDate, "'", "}">>

\* ------------------------------------------------------------------ records
DateKeys == <<"creation-date", "creationDate", "last-tracked-time", "lastTrackedTime", "date">>

RECURSIVE FirstTruthy(_, _)
FirstTruthy(item, i) ==
    IF i > Len(DateKeys) THEN ""
    ELSE IF item[DateKeys[i]] # "" THEN item[DateKeys[i]]
         ELSE FirstTruthy(item, i + 1)

\* lastItem['creation-date'] || lastItem['creationDate'] || ... || lastItem['date']
RecordDate(item) == FirstTruthy(item, 1)


SampleItems ==
    { [k \in {DateKeys[i] : i \in 1..Len(DateKeys)} |-> ""],
      [k \in {DateKeys[i] : i \in 1..Len(DateKeys)} |->
          IF k = "creation-date" THEN Dates[1] ELSE ""],
      [k \in {DateKeys[i] : i \in 1..Len(DateKeys)} |->
          IF k = "creationDate" THEN Dates[2] ELSE IF k = "date" THEN Dates[1] ELSE ""] }

NoItem == [k \in {DateKeys[i] : i \in 1..Len(DateKeys)} |-> ""]

\* totalRecordsCount of a response: << >> when the field is absent.
TotalCounts == {<< >>, <<0>>, <<2>>}
DeepTotalCounts == {<< >>, <<2>>}

\* Sizes of a page that is not full.
ShortSizes(limit) == {0} \cup (IF limit > 7 THEN {7} ELSE IF limit > 1 THEN {1} ELSE {})

\* ------------------------------------------------------ fetchWithPagination
\* The locals of one fetchWithPagination call.  q0 is initialParams.q, q is
\* params.q of the requests of the current batch.  batchGets, refreshes,
\* sawShort, marker, prevMarker, firstTrc, firstSize and stop are history
\* variables: the GETs issued in the current batch (a retry after 401 not
\* counted), the token refreshes made for the current GET, whether some
\* response was shorter than limit, the date markers of the current and the
\* previous batch, the totalRecordsCount field of the first response that had
\* one, the number of items of the first response (-1 before it), and the
\* test that ended the outer loop.  The items arrays are kept as their
\* lengths (batchItems, allItems) and as the sequences of the responses
\* whose items they hold (batchIds, allIds), the 2xx responses of the call
\* being numbered from 1 (responses); gotten is the number of items those
\* responses held.
NewPage(paramLimit, paramQ) ==
    [limit |-> IF paramLimit # 0 THEN paramLimit ELSE DefaultLimit,
     allItems |-> 0, totalRecords |-> -1, lastRecordDate |-> "",
     batchNumber |-> 0, baseQuery |-> paramQ, q0 |-> paramQ, q |-> paramQ,
     offset |-> 0, batchItems |-> 0, lastItem |-> NoItem, state |-> "new",
     batchGets |-> 0, refreshes |-> 0, sawShort |-> FALSE,
     marker |-> "", prevMarker |-> "",
     firstTrc |-> << >>, firstSize |-> -1, stop |-> "none",
     batchIds |-> << >>, allIds |-> << >>, responses |-> 0, gotten |-> 0]

IdlePage == NewPage(0, << >>)

\* The top of the outer loop with batchItems declared outside the loop.
StartBatchKeepsItems(g) ==
    LET rewritten == RewriteQuery(g.baseQuery, g.lastRecordDate)
    IN  [g EXCEPT !.offset = 0,
                  !.baseQuery = IF g.lastRecordDate # "" THEN rewritten ELSE @,
                  !.q = IF g.lastRecordDate # "" THEN rewritten ELSE g.q0,
                  !.lastItem = NoItem, !.state = "get",
                  !.batchGets = 1, !.refreshes = 0,
                  !.prevMarker = g.marker, !.marker = g.lastRecordDate]

\* Lines 648-678: the top of the outer loop up to the first GET of a batch.
\* params.offset = offset replaces the offset of initialParams.
StartBatch(g) ==
    LET rewritten == RewriteQuery(g.baseQuery, g.lastRecordDate)
    IN  [g EXCEPT !.offset = 0,
                  !.baseQuery = IF g.lastRecordDate # "" THEN rewritten ELSE @,
                  !.q = IF g.lastRecordDate # "" THEN rewritten ELSE g.q0,
                  !.batchItems = 0, !.batchIds = << >>,
                  !.lastItem = NoItem, !.state = "get",
                  !.batchGets = 1, !.refreshes = 0,
                  !.prevMarker = g.marker, !.marker = g.lastRecordDate]

\* Lines 754-758.
Return(g) == [g EXCEPT !.state = "return"]

\* The end of a batch without the test `batchItems.length < limit`.
EndBatchNoShortTest(g) ==
    LET g1 == [g EXCEPT !.allItems = @ + g.batchItems, !.allIds = @ \o g.batchIds,
                        !.batchNumber = @ + 1]
        lastDate == RecordDate(g1.lastItem)
    IN  IF g1.batchItems = 0
        THEN Return([g1 EXCEPT !.stop = "short"])
        ELSE IF lastDate = "" THEN Return([g1 EXCEPT !.stop = "undated"])
        ELSE LET g2 == [g1 EXCEPT !.lastRecordDate = lastDate]
             IN  IF g2.batchNumber > MaxBatchNumber
                 THEN Return([g2 EXCEPT !.stop = "safety"])
                 ELSE StartBatch(g2)

\* Lines 723-751: after the inner loop.
EndBatch(g) ==
    LET g1 == [g EXCEPT !.allItems = @ + g.batchItems, !.allIds = @ \o g.batchIds,
                        !.batchNumber = @ + 1]
        lastDate == RecordDate(g1.lastItem)
    IN  IF g1.batchItems = 0 \/ g1.batchItems < g1.limit
        THEN Return([g1 EXCEPT !.stop = "short"])
        ELSE IF lastDate = "" THEN Return([g1 EXCEPT !.stop = "undated"])
        ELSE LET g2 == [g1 EXCEPT !.lastRecordDate = lastDate]
             IN  IF g2.batchNumber > MaxBatchNumber
                 THEN Return([g2 EXCEPT !.stop = "safety"])
                 ELSE StartBatch(g2)

\* totalRecords overwritten by every response that carries a count.
NextTotalRecordsLast(totalRecords, trc) ==
    IF trc # << >> THEN trc[1] ELSE totalRecords

\* Lines 690-695: totalRecords after a response whose totalRecordsCount is trc.
NextTotalRecords(totalRecords, trc) ==
    IF trc # << >> /\ totalRecords = -1 THEN trc[1] ELSE totalRecords

\* The inner loop without the tests of the offset against MAX_OFFSET.
AfterOkNoCap(g, n, item, trc) ==
    LET g1 == [g EXCEPT !.batchItems = @ + n,
                        !.batchIds = Append(@, g.responses + 1),
                        !.responses = @ + 1, !.gotten = @ + n,
                        !.lastItem = IF n > 0 THEN item ELSE @,
                        !.totalRecords = NextTotalRecords(@, trc),
                        !.sawShort = @ \/ n < g.limit,
                        !.firstTrc = IF @ = << >> THEN trc ELSE @,
                        !.firstSize = IF @ = -1 THEN n ELSE @]
    IN  IF n < g1.limit THEN EndBatch(g1)
        ELSE [g1 EXCEPT !.offset = @ + g1.limit,
                        !.state = "get", !.batchGets = @ + 1, !.refreshes = 0]

\* Lines 686-707 and the loop test of line 674: a 2xx response with n items,
\* the last of which is item, and totalRecordsCount trc.
AfterOk(g, n, item, trc) ==
    LET g1 == [g EXCEPT !.batchItems = @ + n,
                        !.batchIds = Append(@, g.responses + 1),
                        !.responses = @ + 1, !.gotten = @ + n,
                        !.lastItem = IF n > 0 THEN item ELSE @,
                        !.totalRecords = NextTotalRecords(@, trc),
                        !.sawShort = @ \/ n < g.limit,
                        !.firstTrc = IF @ = << >> THEN trc ELSE @,
                        !.firstSize = IF @ = -1 THEN n ELSE @]
    IN  IF n < g1.limit THEN EndBatch(g1)
        ELSE LET g2 == [g1 EXCEPT !.offset = @ + g1.limit]
             IN  IF g2.offset > MAX_OFFSET THEN EndBatch(g2)
                 ELSE IF g2.offset <= MAX_OFFSET
                      THEN [g2 EXCEPT !.state = "get", !.batchGets = @ + 1, !.refreshes = 0]
                      ELSE EndBatch(g2)

\* The return value with total always the size of the accumulator.
PageResultAccumulator(g) ==
    [totalRecords |-> g.allItems, retrievedRecords |-> g.allItems]

\* The value returned by fetchWithPagination.
PageResult(g) ==
    [totalRecords |-> IF g.totalRecords # -1 THEN g.totalRecords ELSE g.allItems,
     retrievedRecords |-> g.allItems]


\* ----------------------------------------------------------- input schemas
\* The enum of the environment property, the same in every tool schema.
environmentSchema == {"dev", "qa3", "prod1", "prod3"}

\* monitoringInstancesSchema: the enums of duration and status.
DurationEnum == {"1h", "6h", "1d", "2d", "3d", "RETENTIONPERIOD"}
StatusEnum == {"IN_PROGRESS", "COMPLETED", "FAILED", "ABORTED"}

\* The arguments c satisfy the inputSchema of the tool c.name, as far as the
\* properties environment, duration and status go.
SatisfiesSchema(c) ==
    IF c.name = "monitoringInstances"
    THEN /\ c.duration \in DurationEnum
         /\ c.status \in StatusEnum
         /\ c.environment \in environmentSchema
    ELSE c.environment \in environmentSchema

\* ------------------------------------------------------------------- state
VARIABLES
    now,       \* Date.now()
    files,     \* the token files of the home directory, by path
    nominal,   \* history: by path, the nominal expiry of the saved token
    issued,    \* tokens issued so far by the token endpoints
    upstream,  \* pages the upstream will still serve: full ones, short ones
    pc,        \* where each tools/call handler is suspended
    call,      \* request.params of each call
    acq,       \* the getAccessToken invocation each call is suspended in
    tok,       \* the token the call's requests carry (token, currentToken)
    retryOn401,\* fetchSingle's parameter
    singleRef, \* history: token refreshes made by the call's fetchSingle or POST
    page,      \* the locals of the call's fetchWithPagination
    result,    \* the MCP result returned by the handler
    delivery,  \* history: by call, when it was received and answered, and
               \* the /sse session it came through
    sse,       \* run()'s sseTransport and the /sse sessions opened so far
    proc       \* the process: constructed, running, shutting down, exited

vars == <<now, files, nominal, issued, upstream, pc, call, acq, tok,
          retryOn401, singleRef, page, result, delivery, sse, proc>>

NoCall == [name |-> "none", environment |-> Undefined, duration |-> Undefined,
           status |-> Undefined, q |-> << >>, limit |-> 0,
     id |-> Undefined, ids |-> -1, offset |-> 0]
NoAcq == [owner |-> "none", tokenUrl |-> "", env |-> "none", forceRefresh |-> FALSE, from |-> "none"]
NoResult == [isError |-> FALSE, text |-> "none", detail |-> 0,
             totalRecords |-> 0, retrievedRecords |-> 0, aggregate |-> << >>]

NoDelivery == [received |-> 0, sent |-> 0, session |-> 0, opened |-> 0, closed |-> FALSE]
NoSse == [sseTransport |-> 0, sessions |-> << >>, notFound |-> -1, refused |-> 0]

\* The states of the process in which handlers run.
Serving == {"running", "shutting"}

RECURSIVE MaxOf(_)
MaxOf(S) == IF S = {} THEN 0 ELSE LET x == CHOOSE x \in S : TRUE
                                  IN  IF x > MaxOf(S \ {x}) THEN x ELSE MaxOf(S \ {x})

\* The step of call p as the client sees it: a request is received through
\* the transport that run() last connected, a response is sent when the
\* handler's promise settles.  The transports and the process do not change.
Observe(p) ==
    /\ delivery' = [delivery EXCEPT ![p] =
           IF pc[p] = "idle"
           THEN [received |-> 1 + MaxOf({delivery[q].received : q \in Calls}),
                 sent |-> IF pc'[p] = "done"
                          THEN 1 + MaxOf({delivery[q].sent : q \in Calls}) ELSE 0,
                 session |-> sse.sseTransport,
                 opened |-> Len(sse.sessions),
                 closed |-> sse.sseTransport # 0
                            /\ sse.sessions[sse.sseTransport] = "closed"]
           ELSE IF pc[p] # "done" /\ pc'[p] = "done"
           THEN [@ EXCEPT !.sent = 1 + MaxOf({delivery[q].sent : q \in Calls})]
           ELSE @]
    /\ UNCHANGED <<sse, proc>>

\* --------------------------------------------------------------- tool calls
SingleTools == {"monitoringInstanceDetails"}
ListTools == {"monitoringIntegrations"}

\* The tools that POST a mutation; the last two act on many instances.
PostTools ==
    {"monitoringAbortInstance", "monitoringResubmitErroredInstances",
     "monitoringDiscardErroredInstances"}
BulkTools == {"monitoringResubmitErroredInstances", "monitoringDiscardErroredInstances"}

\* q built by the monitoringInstances case from duration and status.
InstancesQuery == <<"{", "c", ",", "c", ",", "c", ",", "c", "}">>

\* The catch block of the CallToolRequestSchema handler: the text of the
\* error result.  An error is [status, request, message, detail]: status is
\* error.response.status (0 when there is no response), detail is the HTTP
\* status that error.message quotes (0 when it quotes none).
ErrorTextGeneric(error) ==
    IF error.status # 0 THEN "Error executing: status statusText - data"
    ELSE IF error.request THEN "Network error"
    ELSE error.message

ErrorText(error) ==
    IF error.status # 0
    THEN IF error.status = 401 THEN "Authentication failed (401)"
         ELSE IF error.status = 403 THEN "Authorization failed (403)"
         ELSE IF error.status = 404 THEN "Resource not found (404)"
         ELSE "Error executing: status statusText - data"
    ELSE IF error.request THEN "Network error"
    ELSE error.message

\* The HTTP status quoted in the text of the error result.
ErrorDetail(error) ==
    IF error.status # 0 THEN error.status
    ELSE IF error.request THEN 0
    ELSE error.detail

\* The catch block returning its result without the isError flag.
ErrorResultNoFlag(error) ==
    [isError |-> FALSE, text |-> ErrorText(error), detail |-> ErrorDetail(error),
     totalRecords |-> 0, retrievedRecords |-> 0, aggregate |-> << >>]

\* The result the catch block returns.
ErrorResult(error) ==
    [isError |-> TRUE, text |-> ErrorText(error), detail |-> ErrorDetail(error),
     totalRecords |-> 0, retrievedRecords |-> 0, aggregate |-> << >>]

OkResult(total, retrieved) ==
    [isError |-> FALSE, text |-> "json", detail |-> 0,
     totalRecords |-> total, retrievedRecords |-> retrieved, aggregate |-> << >>]

PlainError(message) ==
    [status |-> 0, request |-> FALSE, message |-> message, detail |-> 0]

\* The error of getAccessToken with a message that leaves the status out.
AuthErrorNoStatus(status) ==
    PlainError("Authentication failed: message")

\* The error getAccessToken throws when the token request fails: lines
\* 104-110.  The message quotes the status and body of the response, if any.
AuthError(status) ==
    IF status # 0
    THEN [PlainError("Authentication failed: status statusText - data")
             EXCEPT !.detail = status]
    ELSE PlainError("Authentication failed: message")

HttpError(status) ==
    [status |-> status, request |-> TRUE, message |-> "Request failed", detail |-> 0]
NetworkError ==
    [status |-> 0, request |-> TRUE, message |-> "Network Error", detail |-> 0]

\* The handler rejects instead of returning a result.
FailThrows(p, error) ==
    /\ pc' = [pc EXCEPT ![p] = "done"]
    /\ result' = result

\* The handler returns an error result.
Fail(p, error) ==
    /\ pc' = [pc EXCEPT ![p] = "done"]
    /\ result' = [result EXCEPT ![p] = ErrorResult(error)]

\* The call goes on with token t up to its resource request: fetchSingle,
\* the first GET of fetchWithPagination, or the POST of a mutation tool
\* (monitoringResubmitErroredInstances tests the number of ids first).
StartFetch(p, c, t) ==
    /\ tok' = [tok EXCEPT ![p] = t]
    /\ IF c.name = "monitoringResubmitErroredInstances" /\ c.ids > MaxInstanceIds
       THEN /\ Fail(p, PlainError("Maximum 50 instanceIds allowed per request"))
            /\ UNCHANGED <<retryOn401, page>>
       ELSE IF c.name \in PostTools
       THEN /\ pc' = [pc EXCEPT ![p] = "post_wait"]
            /\ UNCHANGED <<retryOn401, page, result>>
       ELSE IF c.name \in SingleTools
       THEN /\ pc' = [pc EXCEPT ![p] = "get_wait"]
            /\ retryOn401' = [retryOn401 EXCEPT ![p] = TRUE]
            /\ UNCHANGED <<page, result>>
       ELSE /\ pc' = [pc EXCEPT ![p] = "page_wait"]
            /\ UNCHANGED <<retryOn401, result>>
            /\ page' = [page EXCEPT ![p] =
                   StartBatch(IF c.name = "monitoringInstances"
                              THEN NewPage(InstancesLimit, InstancesQuery)
                              ELSE NewPage(c.limit, c.q))]

\* getAccessToken(envConfig, forceRefresh, environment), lines 56-94, called
\* by the handler for call c: up to the return of a cached token, the
\* credentials error, or the POST to the token endpoint.
GetAccessTokenFirst(p, c, envConfig, environment) ==
    LET env == IF environment = Undefined THEN "dev" ELSE environment
        tokenManager == ManagerFor(env)
        cachedToken == GetTokenOf(files[tokenManager.tokenFilePath], now)
    IN  /\ files' = FilesAfterGetToken(files, tokenManager, now)
        /\ nominal' = nominal
        /\ IF cachedToken # NoToken
           THEN /\ StartFetch(p, c, cachedToken)
                /\ acq' = acq
           ELSE IF envConfig.clientId = "" \/ envConfig.clientSecret = "" \/ envConfig.tokenUrl = ""
           THEN /\ Fail(p, PlainError("Authentication failed: credentials not configured"))
                /\ UNCHANGED <<acq, tok, retryOn401, page>>
           ELSE /\ pc' = [pc EXCEPT ![p] = "token_wait"]
                /\ acq' = [acq EXCEPT ![p] =
                       [owner |-> envConfig.owner, tokenUrl |-> envConfig.tokenUrl,
                        env |-> env, forceRefresh |-> FALSE, from |-> "handler"]]
                /\ UNCHANGED <<tok, retryOn401, page, result>>

\* The CallToolRequestSchema handler up to its first suspension.
CallTool(p, c) ==
    /\ pc[p] = "idle"
    /\ proc.state = "running"
    /\ call' = [call EXCEPT ![p] = c]
    /\ UNCHANGED <<now, issued, upstream, singleRef>>
    /\ IF c.name = "monitoringInstances"
       THEN IF c.environment = Undefined
            THEN /\ Fail(p, PlainError("Environment parameter is required"))
                 /\ UNCHANGED <<files, nominal, acq, tok, retryOn401, page>>
            ELSE IF c.duration = Undefined
            THEN /\ Fail(p, PlainError("Duration parameter is required"))
                 /\ UNCHANGED <<files, nominal, acq, tok, retryOn401, page>>
            ELSE IF c.status = Undefined
            THEN /\ Fail(p, PlainError("Status parameter is required"))
                 /\ UNCHANGED <<files, nominal, acq, tok, retryOn401, page>>
            ELSE IF c.environment \notin validEnvironments
            THEN /\ Fail(p, PlainError("Invalid environment"))
                 /\ UNCHANGED <<files, nominal, acq, tok, retryOn401, page>>
            ELSE GetAccessTokenFirst(p, c, getConfigForEnvironment(c.environment), c.environment)
       ELSE IF c.name \in SingleTools \cup ListTools
       THEN GetAccessTokenFirst(p, c, CONFIG, "dev")
       ELSE IF c.name \in PostTools
       THEN IF c.name = "monitoringAbortInstance" /\ c.id = Undefined
            THEN /\ Fail(p, PlainError("Instance id (id) is required"))
                 /\ UNCHANGED <<files, nominal, acq, tok, retryOn401, page>>
            ELSE IF c.environment = Undefined
            THEN /\ Fail(p, PlainError("Environment parameter is required"))
                 /\ UNCHANGED <<files, nominal, acq, tok, retryOn401, page>>
            ELSE IF c.name = "monitoringResubmitErroredInstances" /\ (c.ids = -1 \/ c.ids = 0)
            THEN /\ Fail(p, PlainError("instanceIds parameter is required"))
                 /\ UNCHANGED <<files, nominal, acq, tok, retryOn401, page>>
            ELSE IF c.environment \notin validEnvironments
            THEN /\ Fail(p, PlainError("Invalid environment"))
                 /\ UNCHANGED <<files, nominal, acq, tok, retryOn401, page>>
            ELSE GetAccessTokenFirst(p, c, getConfigForEnvironment(c.environment), c.environment)
       ELSE /\ Fail(p, PlainError("Unknown tool"))
            /\ UNCHANGED <<files, nominal, acq, tok, retryOn401, page>>
    /\ Observe(p)


\* getAccessToken(CONFIG, true, 'dev') as called by the 401 branches, after
\* tokenManager.clearToken() on the manager of 'dev': lines 624-627, 712-715.
RefreshAfter401(p, from) ==
    LET env == "dev"
        tokenManager == ManagerFor(env)
    IN  /\ files' = FilesAfterClearToken(files, tokenManager)
        /\ nominal' = nominal
        /\ IF CONFIG.clientId = "" \/ CONFIG.clientSecret = "" \/ CONFIG.tokenUrl = ""
           THEN /\ Fail(p, PlainError("Authentication failed: credentials not configured"))
                /\ acq' = acq
           ELSE /\ pc' = [pc EXCEPT ![p] = "token_wait"]
                /\ acq' = [acq EXCEPT ![p] =
                       [owner |-> CONFIG.owner, tokenUrl |-> CONFIG.tokenUrl,
                        env |-> env, forceRefresh |-> TRUE, from |-> from]]
                /\ result' = result

\* The token endpoint answers 2xx: lines 96-103, then the caller continues
\* up to its next request.  expires_in = 0 stands for a missing field.
TokenResponse(p, expires_in) ==
    LET accessToken == [cred |-> acq[p].owner, serial |-> issued + 1]
        expiresIn == IF expires_in # 0 THEN expires_in ELSE DefaultExpiresIn
        tokenManager == ManagerFor(acq[p].env)
    IN  /\ pc[p] = "token_wait"
        /\ issued < MaxTokens
        /\ issued' = issued + 1
        /\ files' = FilesAfterSaveToken(files, tokenManager, accessToken, expiresIn, now)
        /\ nominal' = [nominal EXCEPT ![tokenManager.tokenFilePath] = now + expiresIn * 1000]
        /\ acq' = [acq EXCEPT ![p] = NoAcq]
        /\ UNCHANGED <<now, upstream, call, singleRef>>
        /\ IF acq[p].from = "handler" THEN StartFetch(p, call[p], accessToken)
           ELSE IF acq[p].from = "single"
           THEN /\ pc' = [pc EXCEPT ![p] = "get_wait"]
                /\ tok' = [tok EXCEPT ![p] = accessToken]
                /\ retryOn401' = [retryOn401 EXCEPT ![p] = FALSE]
                /\ UNCHANGED <<page, result>>
           ELSE IF acq[p].from = "offsets"
           THEN /\ pc' = [pc EXCEPT ![p] = "offset_wait"]
                /\ tok' = [tok EXCEPT ![p] = accessToken]
                /\ UNCHANGED <<retryOn401, page, result>>
           ELSE /\ pc' = [pc EXCEPT ![p] = "page_wait"]
                /\ tok' = [tok EXCEPT ![p] = accessToken]
                /\ UNCHANGED <<retryOn401, page, result>>
        /\ Observe(p)

\* The token endpoint answers non-2xx (status) or not at all (0): lines
\* 104-110.
TokenFailure(p, status) ==
    /\ pc[p] = "token_wait"
    /\ proc.state \in Serving
    /\ Fail(p, AuthError(status))
    /\ acq' = [acq EXCEPT ![p] = NoAcq]
    /\ UNCHANGED <<now, files, nominal, issued, upstream, call, tok, retryOn401, singleRef, page>>
    /\ Observe(p)

\* fetchSingle: the GET is answered 2xx.
SingleOk(p) ==
    /\ pc[p] = "get_wait"
    /\ proc.state \in Serving
    /\ pc' = [pc EXCEPT ![p] = "done"]
    /\ result' = [result EXCEPT ![p] = OkResult(0, 0)]
    /\ UNCHANGED <<now, files, nominal, issued, upstream, call, acq, tok, retryOn401, singleRef, page>>
    /\ Observe(p)

\* fetchSingle: the GET is answered 401, lines 619-631.
Single401(p) ==
    /\ pc[p] = "get_wait"
    /\ proc.state \in Serving
    /\ UNCHANGED <<now, issued, upstream, call, tok, retryOn401, page>>
    /\ IF retryOn401[p]
       THEN /\ RefreshAfter401(p, "single")
            /\ singleRef' = [singleRef EXCEPT ![p] = @ + 1]
       ELSE /\ Fail(p, HttpError(401))
            /\ UNCHANGED <<files, nominal, acq, singleRef>>
    /\ Observe(p)

\* fetchSingle: any other failure (status 0: no response).
SingleError(p, status) ==
    /\ pc[p] = "get_wait"
    /\ proc.state \in Serving
    /\ Fail(p, IF status = 0 THEN NetworkError ELSE HttpError(status))
    /\ UNCHANGED <<now, files, nominal, issued, upstream, call, acq, tok, retryOn401, singleRef, page>>
    /\ Observe(p)

\* The upstream's answer to a bulk POST, as far as the fields totalRequested,
\* successCount, failedCount and the length of details go: << >> when the
\* body has none of them (the upstream answers with its recovery job).
UpstreamBodies == {<< >>}

\* A mutation tool: the POST is answered 2xx with body; the tool returns
\* response.data.
PostOk(p, body) ==
    /\ pc[p] = "post_wait"
    /\ proc.state \in Serving
    /\ pc' = [pc EXCEPT ![p] = "done"]
    /\ result' = [result EXCEPT ![p] = [OkResult(0, 0) EXCEPT !.aggregate = body]]
    /\ UNCHANGED <<now, files, nominal, issued, upstream, call, acq, tok, retryOn401, singleRef, page>>
    /\ Observe(p)

\* A mutation tool: the POST fails (status 0: no response); the error
\* leaves execute and reaches the catch block of the handler.
PostError(p, status) ==
    /\ pc[p] = "post_wait"
    /\ proc.state \in Serving
    /\ Fail(p, IF status = 0 THEN NetworkError ELSE HttpError(status))
    /\ UNCHANGED <<now, files, nominal, issued, upstream, call, acq, tok, retryOn401, singleRef, page>>
    /\ Observe(p)

\* fetchWithPagination's retryOn401 parameter: no caller passes it.
PageRetryOn401 == TRUE

\* fetchWithPagination: the GET is answered 2xx with n items.
PageOk(p, n, item, trc) ==
    LET g == AfterOk(page[p], n, item, trc)
    IN  /\ pc[p] = "page_wait"
        /\ IF n = page[p].limit THEN upstream.full > 0 ELSE upstream.short > 0
        /\ upstream' = IF n = page[p].limit THEN [upstream EXCEPT !.full = @ - 1]
                                           ELSE [upstream EXCEPT !.short = @ - 1]
        /\ page' = [page EXCEPT ![p] = g]
        /\ IF g.state = "return"
           THEN /\ pc' = [pc EXCEPT ![p] = "done"]
                /\ result' = [result EXCEPT ![p] =
                       OkResult(PageResult(g).totalRecords, PageResult(g).retrievedRecords)]
           ELSE UNCHANGED <<pc, result>>
        /\ UNCHANGED <<now, files, nominal, issued, call, acq, tok, retryOn401, singleRef>>
        /\ Observe(p)

\* fetchWithPagination: the GET is answered 401, lines 708-720.
Page401(p) ==
    /\ pc[p] = "page_wait"
    /\ proc.state \in Serving
    /\ UNCHANGED <<now, issued, upstream, call, tok, retryOn401, singleRef>>
    /\ IF PageRetryOn401
       THEN /\ RefreshAfter401(p, "page")
            /\ page' = [page EXCEPT ![p].refreshes = @ + 1]
       ELSE /\ Fail(p, HttpError(401))
            /\ UNCHANGED <<files, nominal, acq, page>>
    /\ Observe(p)

\* fetchWithPagination: any other failure.
PageError(p, status) ==
    /\ pc[p] = "page_wait"
    /\ proc.state \in Serving
    /\ Fail(p, IF status = 0 THEN NetworkError ELSE HttpError(status))
    /\ UNCHANGED <<now, files, nominal, issued, upstream, call, acq, tok, retryOn401, singleRef, page>>
    /\ Observe(p)

\* ------------------------------------------- offset-based fetchWithPagination
\* The fetchWithPagination of the earlier index.ts, which walks one offset
\* sequence.  Its locals are kept in the fields limit, offset, allItems and
\* totalRecords of page.

\* The token its caller passes.
CallerToken == [cred |-> "dev", serial |-> 0]

\* Lines 641-650: the locals before the first GET.
NewOffsets(paramLimit, paramOffset) ==
    [NewPage(paramLimit, << >>) EXCEPT !.offset = paramOffset, !.state = "get"]

\* Lines 662-679 and the loop test of line 650: a 2xx response with n items
\* and totalRecordsCount trc.
OffsetsAfterOk(g, n, trc) ==
    LET g1 == [g EXCEPT !.allItems = @ + n,
                        !.totalRecords = IF trc # << >> THEN trc[1] ELSE @]
    IN  IF trc = << >> /\ n < g.limit THEN Return(g1)
        ELSE LET g2 == [g1 EXCEPT !.offset = @ + g.limit]
             IN  IF g2.offset > OffsetCap THEN Return(g2)
                 ELSE IF g2.totalRecords = -1 \/ g2.offset < g2.totalRecords
                 THEN g2
                 ELSE Return(g2)

\* fetchWithPagination(url, token, {limit, offset}) is called.
FetchWithOffsets(p, limit, offset) ==
    /\ pc[p] = "idle"
    /\ proc.state = "running"
    /\ pc' = [pc EXCEPT ![p] = "offset_wait"]
    /\ call' = [call EXCEPT ![p] =
           [NoCall EXCEPT !.name = "monitoringIntegrations", !.limit = limit,
                          !.offset = offset]]
    /\ tok' = [tok EXCEPT ![p] = CallerToken]
    /\ page' = [page EXCEPT ![p] = NewOffsets(limit, offset)]
    /\ UNCHANGED <<now, files, nominal, issued, upstream, acq, retryOn401, singleRef, result>>
    /\ Observe(p)

\* The GET is answered 2xx with n items.
OffsetOk(p, n, trc) ==
    LET g == OffsetsAfterOk(page[p], n, trc)
    IN  /\ pc[p] = "offset_wait"
        /\ proc.state \in Serving
        /\ page' = [page EXCEPT ![p] = g]
        /\ IF g.state = "return"
           THEN /\ pc' = [pc EXCEPT ![p] = "done"]
                /\ result' = [result EXCEPT ![p] =
                       OkResult(PageResult(g).totalRecords, PageResult(g).retrievedRecords)]
           ELSE UNCHANGED <<pc, result>>
        /\ UNCHANGED <<now, files, nominal, issued, upstream, call, acq, tok, retryOn401, singleRef>>
        /\ Observe(p)

\* The GET is answered 401, lines 680-691.
Offset401(p) ==
    /\ pc[p] = "offset_wait"
    /\ proc.state \in Serving
    /\ UNCHANGED <<now, issued, upstream, call, tok, retryOn401, singleRef>>
    /\ IF PageRetryOn401
       THEN /\ RefreshAfter401(p, "offsets")
            /\ page' = [page EXCEPT ![p].refreshes = @ + 1]
       ELSE /\ Fail(p, HttpError(401))
            /\ UNCHANGED <<files, nominal, acq, page>>
    /\ Observe(p)

\* Any other failure of the GET.
OffsetError(p, status) ==
    /\ pc[p] = "offset_wait"
    /\ proc.state \in Serving
    /\ Fail(p, IF status = 0 THEN NetworkError ELSE HttpError(status))
    /\ UNCHANGED <<now, files, nominal, issued, upstream, call, acq, tok, retryOn401, singleRef, page>>
    /\ Observe(p)

\* The result has been sent; the slot serves a later tools/call.
Finish(p) ==
    /\ pc[p] = "done"
    /\ proc.state \in Serving
    /\ pc' = [pc EXCEPT ![p] = "idle"]
    /\ call' = [call EXCEPT ![p] = NoCall]
    /\ tok' = [tok EXCEPT ![p] = NoToken]
    /\ retryOn401' = [retryOn401 EXCEPT ![p] = TRUE]
    /\ singleRef' = [singleRef EXCEPT ![p] = 0]
    /\ page' = [page EXCEPT ![p] = IdlePage]
    /\ result' = [result EXCEPT ![p] = NoResult]
    /\ delivery' = [delivery EXCEPT ![p] = NoDelivery]
    /\ UNCHANGED <<now, files, nominal, issued, upstream, acq, sse, proc>>

\* Time passes.
Tick ==
    /\ now + TickMs <= MaxTicks * TickMs
    /\ proc.state # "exited"
    /\ proc.state = "shutting" => now + TickMs <= proc.deadline
    /\ now' = now + TickMs
    /\ UNCHANGED <<files, nominal, issued, upstream, pc, call, acq, tok,
                   retryOn401, singleRef, page, result, delivery, sse, proc>>

\* ---------------------------------------------------------------- sessions
\* app.get("/sse"): a new transport replaces the one sseTransport held and
\* the server is connected to it.  The sessions are numbered as they open.
GetSseKeepsFirst ==
    /\ proc.state = "running"
    /\ Len(sse.sessions) < MaxSessions
    /\ sse' = [sse EXCEPT !.sessions = Append(@, "open"),
                          !.sseTransport = IF @ = 0 THEN Len(sse.sessions) + 1 ELSE @]
    /\ UNCHANGED <<now, files, nominal, issued, upstream, pc, call, acq, tok,
                   retryOn401, singleRef, page, result, delivery, proc>>

GetSse ==
    /\ proc.state = "running"
    /\ Len(sse.sessions) < MaxSessions
    /\ sse' = [sse EXCEPT !.sessions = Append(@, "open"),
                          !.sseTransport = Len(sse.sessions) + 1]
    /\ UNCHANGED <<now, files, nominal, issued, upstream, pc, call, acq, tok,
                   retryOn401, singleRef, page, result, delivery, proc>>

\* The client of session s closes its event stream.  run() registers no
\* handler for it: sseTransport keeps the transport it holds.
Disconnect(s) ==
    /\ proc.state \in Serving
    /\ s \in 1..Len(sse.sessions)
    /\ sse.sessions[s] = "open"
    /\ sse' = [sse EXCEPT !.sessions[s] = "closed"]
    /\ UNCHANGED <<now, files, nominal, issued, upstream, pc, call, acq, tok,
                   retryOn401, singleRef, page, result, delivery, proc>>

\* app.post("/messages") with a tools/call c in its body: the transport
\* sseTransport holds takes the message, and 404 is sent when it holds
\* none.  A transport whose stream is closed either refuses the message or
\* passes it to the server: that is the transport's choice, not run()'s.
PostMessages(p, c) ==
    IF sse.sseTransport # 0
    THEN \/ CallTool(p, c)
         \/ /\ sse.sessions[sse.sseTransport] = "closed"
            /\ proc.state = "running"
            /\ sse' = [sse EXCEPT !.refused = sse.sseTransport]
            /\ UNCHANGED <<now, files, nominal, issued, upstream, pc, call, acq, tok,
                           retryOn401, singleRef, page, result, delivery, proc>>
    ELSE /\ proc.state = "running"
         /\ sse' = [sse EXCEPT !.notFound = Len(sse.sessions)]
         /\ UNCHANGED <<now, files, nominal, issued, upstream, pc, call, acq, tok,
                        retryOn401, singleRef, page, result, delivery, proc>>

\* ----------------------------------------------------------------- process
\* tokenManagers.forEach(tokenManager => tokenManager.clearToken(...))
ClearTokens(fs) ==
    [f \in DOMAIN fs |->
        IF \E env \in DOMAIN tokenManagers : tokenManagers[env].tokenFilePath = f
        THEN NoFile ELSE fs[f]]

\* new OicMonitorServer(): the managers are built and each clears its file.
Construct ==
    /\ proc.state = "new"
    /\ files' = ClearTokens(files)
    /\ proc' = [proc EXCEPT !.state = "running"]
    /\ UNCHANGED <<now, nominal, issued, upstream, pc, call, acq, tok,
                   retryOn401, singleRef, page, result, delivery, sse>>

\* shutdown(signal) on the first SIGINT or SIGTERM (a later one returns at
\* once): the token files are cleared, server.close is called and the
\* timer of the forced exit is set.
Signal ==
    /\ proc.state = "running"
    /\ files' = ClearTokens(files)
    /\ proc' = [proc EXCEPT !.state = "shutting", !.deadline = now + ForceExitMs]
    /\ UNCHANGED <<now, nominal, issued, upstream, pc, call, acq, tok,
                   retryOn401, singleRef, page, result, delivery, sse>>

\* The callback of server.close: every connection has ended, those of the
\* requests being served and the event streams; process.exit(0).
ServerClosed ==
    /\ proc.state = "shutting"
    /\ \A p \in Calls : pc[p] \in {"idle", "done"}
    /\ \A s \in 1..Len(sse.sessions) : sse.sessions[s] = "closed"
    /\ proc' = [proc EXCEPT !.state = "exited", !.code = 0]
    /\ UNCHANGED <<now, files, nominal, issued, upstream, pc, call, acq, tok,
                   retryOn401, singleRef, page, result, delivery, sse>>

\* shutdown without the timer of the forced exit.
ForceExitNever ==
    /\ FALSE
    /\ UNCHANGED vars

\* The timer set by shutdown fires: process.exit(1).
ForceExit ==
    /\ proc.state = "shutting"
    /\ proc' = [proc EXCEPT !.state = "exited", !.code = 1]
    /\ UNCHANGED <<now, files, nominal, issued, upstream, pc, call, acq, tok,
                   retryOn401, singleRef, page, result, delivery, sse>>

\* ------------------------------------------------------------------ inputs
ExpiresIns == {0, 90}
TokenStatuses == {0, 400, 503}
ErrorStatuses == {0, 403, 404, 500}

BraceFilter == <<"{", "c", ",", "c", "}">>
Filters ==
    { << >>,
      BraceFilter,
      <<"{", "startdate:", "'", Dates[1], "'", ",", "c", "}">>,
      <<"{", "c", ",", "startdate:", "'", Dates[1], "'", "}">>,
      <<"c", ",", "c">>,
      <<"c", ",", "startdate:", "'", Dates[1], "'">> }

Limits == {1, 50, 250, 500, 501, 1000}
DeepLimits == {500, 1000}

InstancesCall(environment, duration, status) ==
    [name |-> "monitoringInstances", environment |-> environment,
     duration |-> duration, status |-> status, q |-> << >>, limit |-> 0,
     id |-> Undefined, ids |-> -1, offset |-> 0]

OtherCall(name, q, limit) ==
    [name |-> name, environment |-> Undefined, duration |-> Undefined,
     status |-> Undefined, q |-> q, limit |-> limit,
     id |-> Undefined, ids |-> -1, offset |-> 0]

\* A call of a tool other than monitoringInstances that names an environment.
EnvCall(name, environment) ==
    [name |-> name, environment |-> environment, duration |-> Undefined,
     status |-> Undefined, q |-> << >>, limit |-> 0,
     id |-> Undefined, ids |-> -1, offset |-> 0]

\* A call of a mutation tool: id is the instance id, ids the length of the
\* instanceIds array (-1 when the argument is absent).
PostCall(name, environment, id, ids) ==
    [name |-> name, environment |-> environment, duration |-> Undefined,
     status |-> Undefined, q |-> << >>, limit |-> 0, id |-> id, ids |-> ids,
     offset |-> 0]

IdCounts == {-1, 0, 2, MaxInstanceIds, MaxInstanceIds + 1}

PostInputs ==
    {PostCall("monitoringAbortInstance", e, i, -1) :
        e \in {"dev", "prod3", "staging", Undefined}, i \in {"i1", Undefined}}
    \cup {PostCall("monitoringResubmitErroredInstances", e, Undefined, n) :
              e \in {"dev", "qa3", Undefined}, n \in IdCounts}
    \cup {PostCall("monitoringDiscardErroredInstances", "dev", Undefined, n) :
              n \in {-1, 0, 2}}

\* Calls that reach the token cache.
CallInputs ==
    {InstancesCall(e, "1h", "FAILED") : e \in Environments}
    \cup {OtherCall("monitoringInstanceDetails", << >>, 0)}

\* Every kind of call, the rejected ones included.
SeqInputs ==
    {InstancesCall(e, "1h", "FAILED") : e \in Environments \cup {"staging", Undefined}}
    \cup {InstancesCall("dev", Undefined, "FAILED"), InstancesCall("dev", "1h", Undefined),
          InstancesCall("dev", "5h", "FAILED")}
    \cup {EnvCall("monitoringInstanceDetails", e) : e \in {"qa3", "staging"}}
    \cup {OtherCall("monitoringInstanceDetails", << >>, 0),
          OtherCall("monitoringIntegrations", << >>, 0),
          OtherCall("noSuchTool", << >>, 0)}

PageInputs ==
    {OtherCall("monitoringIntegrations", q, 0) : q \in Filters}
    \cup {OtherCall("monitoringIntegrations", BraceFilter, l) : l \in Limits}
    \cup {InstancesCall(e, "1h", "FAILED") : e \in Environments}

DeepInputs ==
    {OtherCall("monitoringIntegrations", q, l) : q \in {BraceFilter, <<"c", ",", "c">>}, l \in DeepLimits}

\* ----------------------------------------------------------- specifications
InitWith(fullPages) ==
    /\ now = 0
    /\ files = [f \in Environments |-> NoFile]
    /\ nominal = [f \in Environments |-> 0]
    /\ issued = 0
    /\ upstream = [full |-> fullPages, short |-> MaxShortPages]
    /\ pc = [p \in Calls |-> "idle"]
    /\ call = [p \in Calls |-> NoCall]
    /\ acq = [p \in Calls |-> NoAcq]
    /\ tok = [p \in Calls |-> NoToken]
    /\ retryOn401 = [p \in Calls |-> TRUE]
    /\ singleRef = [p \in Calls |-> 0]
    /\ page = [p \in Calls |-> IdlePage]
    /\ result = [p \in Calls |-> NoResult]
    /\ delivery = [p \in Calls |-> NoDelivery]
    /\ sse = NoSse
    /\ proc = [state |-> "running", code |-> -1, deadline |-> 0]

DatedItem == CHOOSE item \in SampleItems : RecordDate(item) = Dates[1]

\* Concurrent tool calls against the shared token cache.
Init == InitWith(CallsFullPages)

Next ==
    \/ \E p \in Calls, c \in CallInputs : CallTool(p, c)
    \/ \E p \in Calls : TokenResponse(p, 0)
    \/ \E p \in Calls : TokenFailure(p, 400)
    \/ \E p \in Calls : SingleOk(p)
    \/ \E p \in Calls : Single401(p)
    \/ \E p \in Calls : SingleError(p, 500)
    \/ \E p \in Calls : \E n \in ShortSizes(page[p].limit) \cup {page[p].limit} :
          PageOk(p, n, DatedItem, << >>)
    \/ \E p \in Calls : Page401(p)
    \/ \E p \in Calls : PageError(p, 500)

Spec == Init /\ [][Next]_vars

\* Tool calls served one after the other, while time passes.
InitSeq == InitWith(CallsFullPages)

NextSeq ==
    \/ \E c \in SeqInputs : CallTool(1, c)
    \/ \E e \in ExpiresIns : TokenResponse(1, e)
    \/ \E s \in TokenStatuses : TokenFailure(1, s)
    \/ SingleOk(1)
    \/ Single401(1)
    \/ \E s \in ErrorStatuses : SingleError(1, s)
    \/ \E n \in ShortSizes(page[1].limit) \cup {page[1].limit} :
          PageOk(1, n, DatedItem, << >>)
    \/ Page401(1)
    \/ \E s \in ErrorStatuses : PageError(1, s)
    \/ Finish(1)
    \/ Tick

SpecSeq == InitSeq /\ [][NextSeq]_vars

\* One list call, every filter and page size, an upstream of PageFullPages
\* full pages.
InitPage == InitWith(PageFullPages)

NextPage ==
    \/ \E c \in PageInputs : CallTool(1, c)
    \/ TokenResponse(1, 0)
    \/ \E s \in TokenStatuses : TokenFailure(1, s)
    \/ \E n \in ShortSizes(page[1].limit) \cup {page[1].limit},
          item \in SampleItems, trc \in TotalCounts : PageOk(1, n, item, trc)
    \/ \E s \in ErrorStatuses : PageError(1, s)

SpecPage == InitPage /\ [][NextPage]_vars

\* One list call with a large page size against an upstream that keeps
\* serving full pages.
InitDeep == InitWith(DeepFullPages)

NextDeep ==
    \/ \E c \in DeepInputs : CallTool(1, c)
    \/ TokenResponse(1, 0)
    \/ \E s \in TokenStatuses : TokenFailure(1, s)
    \/ \E n \in ShortSizes(page[1].limit) \cup {page[1].limit},
          item \in SampleItems, trc \in DeepTotalCounts : PageOk(1, n, item, trc)
    \/ \E s \in ErrorStatuses : PageError(1, s)

SpecDeep == InitDeep /\ [][NextDeep]_vars

\* Mutation tools called one after the other.
InitPost == InitWith(CallsFullPages)

NextPost ==
    \/ \E c \in PostInputs : CallTool(1, c)
    \/ \E e \in ExpiresIns : TokenResponse(1, e)
    \/ \E s \in TokenStatuses : TokenFailure(1, s)
    \/ \E body \in UpstreamBodies : PostOk(1, body)
    \/ \E s \in {0, 401, 500} : PostError(1, s)
    \/ Finish(1)
    \/ Tick

SpecPost == InitPost /\ [][NextPost]_vars

\* Clients of the /sse transport come and go while calls are posted.
SseInputs ==
    {OtherCall("monitoringInstanceDetails", << >>, 0), OtherCall("noSuchTool", << >>, 0)}

InitSse == InitWith(CallsFullPages)

NextSse ==
    \/ GetSse
    \/ \E s \in 1..MaxSessions : Disconnect(s)
    \/ \E c \in SseInputs : PostMessages(1, c)
    \/ TokenResponse(1, 0)
    \/ TokenFailure(1, 400)
    \/ SingleOk(1)
    \/ Finish(1)

SpecSse == InitSse /\ [][NextSse]_vars

\* The server is stopped by a signal while it serves calls and sessions.
StopInputs ==
    {OtherCall("monitoringInstanceDetails", << >>, 0),
     InstancesCall("qa3", "1h", "FAILED")}

InitStop == InitWith(CallsFullPages)

NextStop ==
    \/ \E c \in StopInputs : CallTool(1, c)
    \/ TokenResponse(1, 0)
    \/ TokenFailure(1, 400)
    \/ SingleOk(1)
    \/ SingleError(1, 500)
    \/ \E n \in ShortSizes(page[1].limit) : PageOk(1, n, DatedItem, << >>)
    \/ Finish(1)
    \/ Tick
    \/ GetSse
    \/ \E s \in 1..MaxSessions : Disconnect(s)
    \/ Signal
    \/ ServerClosed
    \/ ForceExit

SpecStop == InitStop /\ [][NextStop]_vars

\* The same, with the timer of the forced exit firing once it is set.
SpecStopLive == InitStop /\ [][NextStop]_vars /\ WF_vars(ForceExit)

\* The server is started on a home directory that may hold the token files
\* of an earlier run.
Leftover(f) ==
    [accessToken |-> [cred |-> f, serial |-> 0],
     expiry |-> SavedExpiry(0, DefaultExpiresIn), environment |-> f]

BootInputs ==
    {OtherCall("monitoringInstanceDetails", << >>, 0),
     InstancesCall("qa3", "1h", "FAILED")}

InitBoot ==
    /\ now = 0
    /\ files \in [Environments -> {NoFile} \cup {Leftover(f) : f \in Environments}]
    /\ \A f \in Environments : files[f] \in {NoFile, Leftover(f)}
    /\ nominal = [f \in Environments |-> 0]
    /\ issued = 0
    /\ upstream = [full |-> CallsFullPages, short |-> MaxShortPages]
    /\ pc = [p \in Calls |-> "idle"]
    /\ call = [p \in Calls |-> NoCall]
    /\ acq = [p \in Calls |-> NoAcq]
    /\ tok = [p \in Calls |-> NoToken]
    /\ retryOn401 = [p \in Calls |-> TRUE]
    /\ singleRef = [p \in Calls |-> 0]
    /\ page = [p \in Calls |-> IdlePage]
    /\ result = [p \in Calls |-> NoResult]
    /\ delivery = [p \in Calls |-> NoDelivery]
    /\ sse = NoSse
    /\ proc = [state |-> "new", code |-> -1, deadline |-> 0]

NextBoot ==
    \/ Construct
    \/ \E c \in BootInputs : CallTool(1, c)
    \/ TokenResponse(1, 0)
    \/ TokenFailure(1, 400)
    \/ SingleOk(1)
    \/ \E n \in ShortSizes(page[1].limit) : PageOk(1, n, DatedItem, << >>)
    \/ Finish(1)

SpecBoot == InitBoot /\ [][NextBoot]_vars

\* The offset-based fetchWithPagination, one call after the other.
OffsetLimits == {512, 1000}
Offsets == {0, 9000}
OffsetTotalCounts == {<< >>, <<0>>, <<20000>>}

InitOffset == InitWith(CallsFullPages)

NextOffset ==
    \/ \E l \in OffsetLimits, o \in Offsets : FetchWithOffsets(1, l, o)
    \/ \E n \in ShortSizes(page[1].limit) \cup {page[1].limit}, trc \in OffsetTotalCounts :
          OffsetOk(1, n, trc)
    \/ Offset401(1)
    \/ \E s \in ErrorStatuses : OffsetError(1, s)
    \/ TokenResponse(1, 0)
    \/ \E s \in TokenStatuses : TokenFailure(1, s)
    \/ Finish(1)

SpecOffset == InitOffset /\ [][NextOffset]_vars

\* One list call whose GETs are answered with pages or with 401.
ItemsInputs ==
    {[OtherCall("monitoringIntegrations", BraceFilter, l) EXCEPT !.offset = o] :
        l \in {1, 250, 500, 1000}, o \in {0, 600}}

InitItems == InitWith(PageFullPages)

NextItems ==
    \/ \E c \in ItemsInputs : CallTool(1, c)
    \/ TokenResponse(1, 0)
    \/ \E n \in ShortSizes(page[1].limit) \cup {page[1].limit},
          item \in SampleItems : PageOk(1, n, item, << >>)
    \/ Page401(1)

SpecItems == InitItems /\ [][NextItems]_vars

\* ------------------------------------------------------------------ claims
\* The tenant a call is made for: the environment argument of
\* monitoringInstances, dev for the tools without one.
TenantOf(c) == IF c.name = "monitoringInstances" THEN c.environment ELSE "dev"

CeilDiv(a, b) == (a + b - 1) \div b

\* Batches of which at least the first GET has been issued.
BatchesIssued(g) == g.batchNumber + (IF g.state = "get" THEN 1 ELSE 0)

StartdatePositions(q) == {i \in 1..Len(q) : q[i] = "startdate:"}

\* C1: for every tenant at most one token-endpoint exchange is in flight.
C1_OneExchangePerTenant ==
    \A t \in Environments :
        Cardinality({p \in Calls : pc[p] = "token_wait" /\ acq[p].owner = t}) <= 1

\* C2: a logical resource request (fetchSingle, or one GET of
\* fetchWithPagination) is followed by at most one token refresh.
C2_OneRefreshPerRequest ==
    \A p \in Calls : singleRef[p] <= 1 /\ page[p].refreshes <= 1

\* C3: the token returned by the cache of tenant t was acquired with the
\* credentials of t.
C3_TokenOfOwnTenant ==
    \A t \in Environments :
        LET tk == GetTokenOf(files[ManagerFor(t).tokenFilePath], now)
        IN  tk # NoToken => tk.cred = t

\* C4: the cache of tenant t returns the stored token exactly when a record
\* is stored and the time is strictly before the nominal expiry minus 60 s.
C4_GetIffFresh ==
    \A t \in Environments :
        LET path == ManagerFor(t).tokenFilePath
            tk == GetTokenOf(files[path], now)
            fresh == files[path] # NoFile /\ now < nominal[path] - 60000
        IN  /\ (tk # NoToken) <=> fresh
            /\ fresh => tk = files[path].accessToken

\* C4 witness: a call found a token saved earlier to be within 60 s of its
\* nominal expiry, got nothing from the cache and went to the token endpoint.
C4_Witness ==
    /\ pc[1] = "token_wait" /\ ~acq[1].forceRefresh
    /\ issued >= 1
    /\ nominal["dev"] - 60000 <= now /\ now < nominal["dev"]

\* C5: after a 401 on a request made for tenant t, the record evicted and
\* the credentials of the new acquisition are those of t.
C5_RefreshForCallTenant ==
    \A p \in Calls :
        (pc[p] = "token_wait" /\ acq[p].forceRefresh) =>
            /\ acq[p].owner = TenantOf(call[p])
            /\ acq[p].env = TenantOf(call[p])

\* C6: one fetchWithPagination call issues at most 100 batches.
C6_AtMost100Batches ==
    \A p \in Calls : BatchesIssued(page[p]) <= 100

\* C7: within one batch at most ceil(500/limit) + 1 GETs are issued, a retry
\* after 401 not counted.
C7_GetsPerBatch ==
    \A p \in Calls : page[p].batchGets <= CeilDiv(500, page[p].limit) + 1

\* C7 witness: a batch of page size 50 has issued its 11th GET, at offset 500.
C7_Witness ==
    /\ pc[1] = "page_wait" /\ page[1].limit = 50
    /\ page[1].batchGets = 11 /\ page[1].offset = 500

\* C8: once a response held fewer than limit items no further GET is issued.
C8_NoGetAfterShortPage ==
    \A p \in Calls : page[p].sawShort => page[p].state # "get"

\* C9: every batch after the first starts at offset 0 and its filter holds
\* exactly one startdate clause, whose value is the record date of the final
\* item of the previous batch.
C9_NextBatchFilter ==
    \A p \in Calls :
        (page[p].state = "get" /\ page[p].batchNumber >= 1) =>
            /\ page[p].batchGets = 1 => page[p].offset = 0
            /\ Cardinality(StartdatePositions(page[p].q)) = 1
            /\ \A i \in StartdatePositions(page[p].q) :
                   /\ i + 2 <= Len(page[p].q)
                   /\ page[p].q[i + 1] = "'"
                   /\ page[p].q[i + 2] = page[p].lastRecordDate

\* C10: the date marker of a batch is later than the marker of the batch
\* before it.
C10_MarkerAdvances ==
    \A p \in Calls :
        page[p].prevMarker # "" =>
            DateIdx(page[p].prevMarker) < DateIdx(page[p].marker)

\* C11: the total reported by fetchWithPagination is the totalRecordsCount of
\* the first response that carried one, whatever later responses carried; if
\* no response carried one, it is the number of accumulated items.
C11_TotalIsFirstCount ==
    \A p \in Calls :
        (pc[p] = "done" /\ page[p].state = "return") =>
            /\ ~result[p].isError
            /\ result[p].totalRecords =
                   IF page[p].firstTrc # << >> THEN page[p].firstTrc[1]
                   ELSE page[p].allItems

\* C11 witness: two batches were fetched, the first response reported 0
\* records, and the call returned total 0 with more than 500 items.
C11_Witness ==
    /\ pc[1] = "done" /\ page[1].state = "return"
    /\ page[1].batchNumber >= 2 /\ page[1].firstTrc = <<0>>
    /\ result[1].totalRecords = 0 /\ result[1].retrievedRecords > 500

\* C12 as stated: when fetchWithPagination stops at the batch safety bound,
\* the total it returns is the size of the accumulator, also when the
\* upstream had reported a totalRecordsCount.
C12_SafetyTotalIsAccumulator ==
    \A p \in Calls :
        (pc[p] = "done" /\ page[p].stop = "safety") =>
            /\ result[p].retrievedRecords = page[p].allItems
            /\ result[p].totalRecords = page[p].allItems

\* C12 amended: when fetchWithPagination stops at the batch safety bound, it
\* returns the items collected so far, and the total is the first
\* totalRecordsCount the upstream reported, or the size of the accumulator
\* when the upstream reported none.
C12_SafetyTotalAmended ==
    \A p \in Calls :
        (pc[p] = "done" /\ page[p].stop = "safety") =>
            /\ ~result[p].isError
            /\ result[p].retrievedRecords = page[p].allItems
            /\ page[p].allItems >= page[p].batchNumber * page[p].limit
            /\ page[p].firstTrc = << >> => result[p].totalRecords = page[p].allItems
            /\ page[p].firstTrc # << >> => result[p].totalRecords = page[p].firstTrc[1]

\* C12 witness: the safety bound stopped a call whose first response had
\* reported 2 records; the result holds every collected item and total 2.
C12_Witness ==
    /\ pc[1] = "done" /\ page[1].stop = "safety"
    /\ page[1].firstTrc = <<2>> /\ result[1].totalRecords = 2
    /\ result[1].retrievedRecords > MaxBatchNumber * page[1].limit

\* C13: when the first upstream response holds fewer than limit items (zero
\* included), that GET is the only one of the call and the result is total =
\* the reported totalRecordsCount, or the item count when none was reported,
\* and retrieved = the item count; an empty endpoint gives total 0 and
\* retrieved 0.
C13_ShortFirstResponse ==
    \A p \in Calls :
        (page[p].firstSize >= 0 /\ page[p].firstSize < page[p].limit) =>
            /\ pc[p] = "done" /\ page[p].state = "return"
            /\ page[p].batchNumber = 1 /\ page[p].batchGets = 1
            /\ page[p].allItems = page[p].firstSize
            /\ result[p] = OkResult(IF page[p].firstTrc # << >> THEN page[p].firstTrc[1]
                                    ELSE page[p].firstSize,
                                    page[p].firstSize)
            /\ (page[p].firstSize = 0 /\ page[p].firstTrc \in {<< >>, <<0>>}) =>
                   result[p] = OkResult(0, 0)

\* C13 witness: the first response of a call with page size 50 held 7 items
\* and reported 2 records; the call returned total 2, retrieved 7.
C13_Witness ==
    /\ pc[1] = "done" /\ page[1].limit = 50
    /\ page[1].firstSize = 7 /\ page[1].firstTrc = <<2>>
    /\ page[1].batchGets = 1 /\ page[1].batchNumber = 1
    /\ result[1] = OkResult(2, 7)

\* The texts of the errors the handler raises for arguments it rejects.
InvalidArgumentsTexts ==
    {"Environment parameter is required", "Duration parameter is required",
     "Status parameter is required", "Invalid environment"}

\* C14: a call of a tool whose arguments violate the tool's input schema
\* (missing required property, value outside the enum) is answered with an
\* invalid-arguments error, and no request to the token endpoint or to the
\* upstream is made for it.
C14_SchemaViolationRejected ==
    \A p \in Calls :
        (call[p].name \in {"monitoringInstances"} \cup SingleTools \cup ListTools
         /\ ~SatisfiesSchema(call[p])) =>
            /\ pc[p] = "done"
            /\ result[p].isError
            /\ result[p].text \in InvalidArgumentsTexts

\* The tools of the server that the model covers; each is tenant-scoped.
TenantTools == {"monitoringInstances"} \cup SingleTools \cup ListTools

\* C15: the tenant of a call is its environment argument only: a call
\* without it is rejected as invalid, the token endpoint is asked with the
\* credentials of the named tenant, and the resource requests carry a token
\* of that tenant; no tool falls back to dev.
C15_TenantFromArgumentOnly ==
    \A p \in Calls :
        call[p].name \in TenantTools =>
            /\ call[p].environment = Undefined =>
                   /\ pc[p] = "done" /\ result[p].isError
                   /\ result[p].text \in InvalidArgumentsTexts
            /\ pc[p] = "token_wait" => acq[p].owner = call[p].environment
            /\ pc[p] \in {"get_wait", "page_wait"} => tok[p].cred = call[p].environment

\* C16: a call of a tenant-scoped tool that names a tenant outside the fixed
\* set is answered with an error result whose message names the unknown
\* tenant (the text "Invalid environment '<name>'..."), and no token
\* acquisition is attempted for it.
C16_UnknownTenantRejected ==
    \A p \in Calls :
        (call[p].name \in TenantTools
         /\ call[p].environment \notin validEnvironments \cup {Undefined}) =>
            /\ pc[p] = "done"
            /\ result[p].isError
            /\ result[p].text = "Invalid environment"

\* C17: a call naming a known tenant whose client id, client secret or token
\* URL is empty fails with the credentials-not-configured error whatever the
\* token cache holds, and makes no request.
C17_UnconfiguredTenantFails ==
    \A p \in Calls :
        (call[p].name = "monitoringInstances"
         /\ call[p].duration # Undefined /\ call[p].status # Undefined
         /\ call[p].environment \in validEnvironments
         /\ getConfigForEnvironment(call[p].environment).clientId = "") =>
            /\ pc[p] = "done"
            /\ result[p].isError
            /\ result[p].text = "Authentication failed: credentials not configured"

\* C18: a call whose name is not a tool of the server is answered with an
\* MCP result that has isError = true and says the tool is unknown; the
\* handler returns it, it does not reject.
C18_UnknownToolIsErrorResult ==
    \A p \in Calls :
        call[p].name \notin TenantTools \cup {NoCall.name} =>
            /\ pc[p] = "done"
            /\ result[p].isError
            /\ result[p].text = "Unknown tool"
            /\ tok[p] = NoToken /\ acq[p] = NoAcq

\* C18 witness: the call noSuchTool has been answered.
C18_Witness ==
    /\ call[1].name = "noSuchTool" /\ pc[1] = "done"
    /\ result[1] = ErrorResult(PlainError("Unknown tool"))

\* r is a result of the handler: a success envelope with the JSON text, or
\* an error envelope with a diagnostic text.
IsEnvelope(r) ==
    \/ ~r.isError /\ r.text = "json"
    \/ r.isError /\ r.text \notin {"none", "json"}

\* C19: a call is answered with exactly one MCP result, a success envelope
\* or an isError envelope, whatever failure the token endpoint or the
\* upstream produced; nothing is returned before the handler is done.
C19_OneResultPerCall ==
    \A p \in Calls :
        /\ pc[p] = "done" => IsEnvelope(result[p])
        /\ pc[p] # "done" => result[p] = NoResult
        /\ (pc[p] = "done" /\ result[p].isError) => result[p].totalRecords = 0

\* C19 witness: the upstream answered the GET of a call with status 500 and
\* the call, which held a token, has been answered with an error envelope.
C19_Witness ==
    /\ pc[1] = "done" /\ tok[1] # NoToken
    /\ result[1] = ErrorResult(HttpError(500))

\* C20: when the token endpoint answers non-2xx, the call ends with the
\* authentication error that quotes that status, nothing is stored in the
\* token cache, and no resource request follows; a call that was acquiring
\* its first token has sent no resource request at all.
C20_TokenFailureSurfaced ==
    [][\A p \in Calls : \A s \in TokenStatuses \ {0} :
          TokenFailure(p, s) =>
              /\ pc'[p] = "done"
              /\ result'[p].isError
              /\ result'[p].text = "Authentication failed: status statusText - data"
              /\ result'[p].detail = s
              /\ files' = files /\ issued' = issued
              /\ acq[p].from = "handler" => tok'[p] = NoToken]_vars

\* C20 witness: the token endpoint answered 503 to a call on an empty cache;
\* the call ended with the error quoting 503, the cache is still empty and
\* the call carries no token.
C20_Witness ==
    /\ pc[1] = "done" /\ result[1].isError /\ result[1].detail = 503
    /\ result[1].text = "Authentication failed: status statusText - data"
    /\ tok[1] = NoToken /\ issued = 0
    /\ \A f \in Environments : files[f] = NoFile

\* C21: a POST of a mutation tool that is answered 401 is not surfaced before
\* the token was evicted, a new one acquired and the POST retried once: a
\* call that ends with the 401 text has made one token refresh.
C21_PostRetriedAfter401 ==
    \A p \in Calls :
        (call[p].name \in PostTools /\ pc[p] = "done"
         /\ result[p].text = "Authentication failed (401)") =>
            singleRef[p] = 1

\* C22: the result of a bulk resubmit or discard of n ids carries
\* totalRequested = n, successCount + failedCount = n and n details.
C22_BulkCountsAddUp ==
    \A p \in Calls :
        (call[p].name \in BulkTools /\ pc[p] = "done" /\ ~result[p].isError) =>
            /\ result[p].aggregate # << >>
            /\ result[p].aggregate[1] = call[p].ids
            /\ result[p].aggregate[2] + result[p].aggregate[3] = call[p].ids
            /\ result[p].aggregate[4] = call[p].ids

\* C23: a bulk resubmit with more than 50 ids fails with the error about the
\* number of ids, and no request for it reaches the upstream REST service.
C23_TooManyIdsRejected ==
    \A p \in Calls :
        (call[p].name = "monitoringResubmitErroredInstances"
         /\ call[p].environment \in validEnvironments
         /\ call[p].ids > MaxInstanceIds) =>
            /\ pc[p] # "post_wait"
            /\ pc[p] = "done" =>
                   /\ result[p].isError
                   /\ result[p].text = "Maximum 50 instanceIds allowed per request"

\* C24: bulk discard and bulk resubmit called with an empty id array both
\* fail with the error about the missing ids, without any upstream call.
C24_EmptyIdsRejected ==
    \A p \in Calls :
        (call[p].name \in BulkTools /\ call[p].environment \in validEnvironments
         /\ call[p].ids = 0) =>
            /\ pc[p] = "done"
            /\ result[p].isError
            /\ result[p].text = "instanceIds parameter is required"

\* C25: the responses of one session are delivered in the order in which
\* its requests were received: of two calls that came through the same
\* transport, the one received later is not answered while the earlier one
\* is still unanswered, nor before it.
C25_ResponsesInRequestOrder ==
    \A a, b \in Calls :
        (/\ delivery[a].received > 0
         /\ delivery[a].received < delivery[b].received
         /\ delivery[a].session = delivery[b].session
         /\ delivery[b].sent > 0) =>
            /\ delivery[a].sent > 0
            /\ delivery[a].sent < delivery[b].sent

C27_ClosedSessionNotRouted ==
    /\ sse.refused = 0
    /\ \A p \in Calls : delivery[p].received > 0 => ~delivery[p].closed

\* C28: the cached tokens are invalidated after the outstanding requests
\* have drained and before the process exits: when the process has exited
\* after a termination signal, no token file holds a record.
C28_NoTokenAtExit ==
    proc.state = "exited" => \A f \in Environments : files[f] = NoFile

\* C29: after a termination signal the process exits, whether or not the
\* outstanding requests and connections ever end.
C29_ExitsAfterSignal ==
    (proc.state = "shutting") ~> (proc.state = "exited")

\* C29 witness: the process was forced to exit while a call was still
\* waiting for the upstream and an event stream was still open.
C29_Witness ==
    /\ proc.state = "exited" /\ proc.code = 1
    /\ pc[1] = "get_wait"
    /\ \E s \in 1..Len(sse.sessions) : sse.sessions[s] = "open"

\* C30: once the server has started, and before it has acquired a token, no
\* token file of dev, qa3, prod1 or prod3 holds a record, whatever the files
\* held before the start.
C30_NoTokenAfterStartup ==
    (proc.state # "new" /\ issued = 0) => \A f \in Environments : files[f] = NoFile

\* C31: after clearToken on the manager of a tenant, getToken on it returns
\* nothing and leaves the file absent until saveToken writes it again;
\* clearToken without a file changes nothing, and clearToken twice equals
\* clearToken once.  A call that cleared the file after a 401 finds it
\* absent for as long as it awaits the token endpoint.
C31_EvictThenGetIsEmpty ==
    /\ \A env \in Environments :
           LET mgr == ManagerFor(env)
               after == FilesAfterClearToken(files, mgr)
           IN  /\ GetTokenOf(after[mgr.tokenFilePath], now) = NoToken
               /\ FilesAfterGetToken(after, mgr, now) = after
               /\ FilesAfterClearToken(after, mgr) = after
               /\ files[mgr.tokenFilePath] = NoFile => after = files
    /\ \A p \in Calls :
           (pc[p] = "token_wait" /\ acq[p].forceRefresh) =>
               GetTokenOf(files[ManagerFor(acq[p].env).tokenFilePath], now) = NoToken

\* C31 witness: a token had been saved and was still fresh when a 401 made
\* the call clear the file; the call awaits the token endpoint and the
\* file is absent.
C31_Witness ==
    /\ pc[1] = "token_wait" /\ acq[1].forceRefresh
    /\ issued > 0
    /\ now > 0 /\ now < nominal["dev"] - bufferSeconds * 1000
    /\ files["dev"] = NoFile

\* C32: the offset-based fetchWithPagination never has more than 10,000
\* records in its accumulator, and never returns more.
C32_AtMostTenThousand ==
    \A p \in Calls :
        /\ page[p].allItems <= OffsetCap
        /\ result[p].retrievedRecords <= OffsetCap

\* C33: the items a list call returns are the items of its 2xx responses,
\* concatenated in the order of the requests: every response once, none
\* left out or moved, and retrievedRecords is their number.  An answer of
\* 401 is no such response.
C33_ItemsAreAllResponses ==
    \A p \in Calls :
        (pc[p] = "done" /\ page[p].state = "return") =>
            /\ page[p].allIds = [i \in 1..page[p].responses |-> i]
            /\ page[p].allItems = page[p].gotten
            /\ result[p].retrievedRecords = page[p].gotten

\* C33 witness: a call returned the items of three batches, of four
\* responses or more, after one of its GETs had been answered 401 (a second
\* token was issued).
C33_Witness ==
    /\ pc[1] = "done" /\ page[1].state = "return"
    /\ page[1].batchNumber = 3 /\ page[1].responses >= 4
    /\ page[1].gotten > 0 /\ issued >= 2
    /\ result[1].retrievedRecords = page[1].gotten

\* C34: a list call never issues a GET with an offset above 500, whatever
\* page size and initial offset its caller supplies.
C34_OffsetAtMost500 ==
    \A p \in Calls :
        (call[p].name \in ListTools \cup {"monitoringInstances"}
         /\ page[p].state = "get") =>
            page[p].offset <= MAX_OFFSET

\* C34 witness: the caller asked for offset 600 and 250 items a page; the
\* third GET of the second batch is in flight, at offset 500.
C34_Witness ==
    /\ call[1].offset = 600 /\ call[1].limit = 250
    /\ pc[1] = "page_wait" /\ page[1].state = "get"
    /\ page[1].batchNumber = 1 /\ page[1].offset = MAX_OFFSET

\* The diagnostic the specification gives for a resource request that was
\* answered with status s (0: not answered at all).
DiagnosticFor(s) ==
    [isError |-> TRUE,
     text |-> IF s = 0 THEN "Network error"
              ELSE IF s = 401 THEN "Authentication failed (401)"
              ELSE IF s = 403 THEN "Authorization failed (403)"
              ELSE IF s = 404 THEN "Resource not found (404)"
              ELSE "Error executing: status statusText - data",
     detail |-> s, totalRecords |-> 0, retrievedRecords |-> 0, aggregate |-> << >>]

\* C35: the result of a call that fails on a resource request depends on
\* the answer to that request only: 401, 403 and 404 have their own texts,
\* any other status the text that quotes status, statusText and body, no
\* answer the network error text; the result always has isError = true.
C35_DiagnosticByStatus ==
    [][\A p \in Calls :
          /\ \A s \in ErrorStatuses :
                 (SingleError(p, s) \/ PageError(p, s)) =>
                     pc'[p] = "done" /\ result'[p] = DiagnosticFor(s)
          /\ (Single401(p) /\ ~retryOn401[p]) =>
                 pc'[p] = "done" /\ result'[p] = DiagnosticFor(401)]_vars

\* C35 witness: a call of a single or list tool, made with a token that
\* was issued to it, failed on a 404 or on a repeated 401 and carries the
\* diagnostic of that status.
C35_Witness ==
    /\ pc[1] = "done"
    /\ call[1].name \in {"monitoringInstanceDetails", "monitoringIntegrations"}
    /\ result[1] \in {DiagnosticFor(s) : s \in {401, 404}}
    /\ issued > 0

\* C36: a list call ends after finitely many requests whatever the upstream
\* answers: it gives up retrying a GET that keeps being answered 401 on its
\* own account, before the tokens the token endpoint can issue are used up.
C36_StopsRetryingOn401 ==
    \A p \in Calls : page[p].refreshes < MaxTokens - 1

\* C37: the rewrite keeps the shape of a brace-delimited filter: in every
\* batch after the first the filter is the caller's filter with the one
\* startdate clause of the current marker added to it, as if no clause had
\* been there before (shown for caller filters without a startdate clause).
C37_RewriteKeepsShape ==
    \A p \in Calls :
        (/\ page[p].state = "get" /\ page[p].batchNumber >= 1
         /\ page[p].q0 # << >>
         /\ page[p].q0[1] = "{" /\ page[p].q0[Len(page[p].q0)] = "}"
         /\ \A i \in 1..Len(page[p].q0) : page[p].q0[i] # "startdate:") =>
            page[p].q = AppendStartdate(page[p].q0, page[p].lastRecordDate)

\* C38: bulk resubmit makes every check of its arguments (tenant missing,
\* ids missing or empty, more than 50 ids) before it acquires a token: a
\* call with such arguments is rejected at once, never awaits the token
\* endpoint and never holds a token.
C38_ChecksBeforeToken ==
    \A p \in Calls :
        (/\ call[p].name = "monitoringResubmitErroredInstances"
         /\ \/ call[p].environment = Undefined
            \/ call[p].ids <= 0
            \/ call[p].ids > MaxInstanceIds) =>
            /\ pc[p] = "done" /\ result[p].isError
            /\ tok[p] = NoToken /\ acq[p] = NoAcq

\* C39: the eviction made for a 401 removes only the token that was
\* rejected: when the request of a call is answered 401 while the cache
\* holds another token of the same tenant, stored by an overlapping call in
\* the meantime, the cache is left as it is.
C39_EvictsOnlyRejectedToken ==
    [][\A p \in Calls :
          (Single401(p) \/ Page401(p)) =>
              \A f \in Environments :
                  (/\ files[f] # NoFile
                   /\ files[f].accessToken # tok[p]
                   /\ files[f].accessToken.cred = tok[p].cred) =>
                      files'[f] = files[f]]_vars

====
